---------------------------- MODULE Spec2Model ----------------------------
(***************************************************************************)
(* Model of scripts/dataset_importer.py: ClickHouseImporter.main and the   *)
(* methods it calls, run against a ClickHouse server that holds a set of   *)
(* tables.  One run of the script is: resolve the dataset root, read every *)
(* file below it into df_datasets (get_datasets), then for every entry of  *)
(* df_datasets issue DROP / SHOW TABLES LIKE / CREATE / INSERT (main).     *)
(*                                                                         *)
(* Init is the state after ClickHouseImporter(client, dataset, full_refresh)*)
(* has been constructed.  (As written, the class statement itself raises   *)
(* ValueError, because the dataclass field filter_tables has a list as its *)
(* default; the model describes the methods of the class with that field   *)
(* holding its declared default.)                                          *)
(***************************************************************************)
EXTENDS Integers, Sequences, FiniteSets, TLC

VARIABLES
    dataset_path,   \* ClickHouseImporter.dataset_path (--dataset)
    full_refresh,   \* ClickHouseImporter.full_refresh (--full-refresh)
    existing,       \* file system: the directories that exist
    files,          \* file system: what data_path.rglob("*") yields, in order
    store,          \* ClickHouse: table name -> [exists, cols, nrows]
    pc,             \* position of the run
    error,          \* the exception that ended the run, or NoError
    idx,            \* get_datasets: position of the rglob loop in files
    df_datasets,    \* get_datasets: the dict, as its items in insertion order
    k,              \* main: position of the for loop in df_datasets.items()
    step,           \* main: the store command the loop body is about to issue
    log,            \* history: the store commands issued in this run
    reads,          \* history: the results of get_dataframe in this run
    store0,         \* history: the store when this run started
    store_init,     \* history: the store before the first run
    run,            \* history: number of the current run
    ends            \* history: the store at the normal end of each run

vars == <<dataset_path, full_refresh, existing, files, store, pc, error,
          idx, df_datasets, k, step, log, reads, store0, store_init, run, ends>>

(***************************************************************************)
(* Bounds of the model.                                                    *)
(***************************************************************************)
MaxFiles == 2
MaxRuns == 2
MaxReaderFiles == 2

(***************************************************************************)
(* Names.  A Python str is a TLA+ string; Chars gives its characters, for  *)
(* the operations that look inside a name.                                 *)
(***************************************************************************)
TableNames == {"accounts", "mcc_codes", "train_fraud_labels", "train-fraud_labels"}

Chars(s) ==
    CASE s = "accounts" -> <<"a","c","c","o","u","n","t","s">>
      [] s = "mcc_codes" -> <<"m","c","c","_","c","o","d","e","s">>
      [] s = "train_fraud_labels" ->
            <<"t","r","a","i","n","_","f","r","a","u","d","_","l","a","b","e","l","s">>
      [] s = "train-fraud_labels" ->
            <<"t","r","a","i","n","-","f","r","a","u","d","_","l","a","b","e","l","s">>
      [] s = "notes" -> <<"n","o","t","e","s">>
      [] s = "broken" -> <<"b","r","o","k","e","n">>
      [] s = "sub" -> <<"s","u","b">>

\* ClickHouseImporter.filter_tables
filter_tables_empty == {}

filter_tables == {"train_fraud_labels"}

\* the name get_datasets compares table_name with
InterpolatedName == "mcc_codes"

NoPath == "None"
GivenPath == "data"
DefaultPath == "../datasets/financial"
NoError == "none"

(***************************************************************************)
(* DataFrames: the ordered columns (name, polars dtype) and the rows.      *)
(***************************************************************************)
Col(n, t) == [name |-> n, dtype |-> t]

DataFrame(cols, rows) == [columns |-> cols, rows |-> rows]

AccountsCsv ==
    DataFrame(<<Col("id", "Int64"), Col("balance", "Float64")>>,
              <<<<1, 10>>, <<2, 20>>>>)
AccountsJson ==
    DataFrame(<<Col("id", "Int32"), Col("owner", "Utf8"), Col("opened", "Datetime")>>,
              <<<<7, "ann", 2020>>>>)
LabelsJson ==
    DataFrame(<<Col("tx", "Int32"), Col("fraud", "Utf8")>>,
              <<<<1, "No">>, <<2, "Yes">>, <<3, "No">>>>)
LookalikeCsv ==
    DataFrame(<<Col("v", "Float32")>>, <<<<5>>>>)
MccObject == <<<<"5411", "Grocery">>, <<"5812", "Restaurant">>>>
NoFrame == DataFrame(<<>>, <<>>)

(***************************************************************************)
(* The entries rglob can yield.  format is what the bytes of the file are; *)
(* shape tells a JSON array of records from a flat JSON object.            *)
(***************************************************************************)
Entry(dir, stem, suffix, isfile, format, shape, df, obj) ==
    [dir |-> dir, stem |-> stem, suffix |-> suffix, is_file |-> isfile,
     format |-> format, shape |-> shape, df |-> df, obj |-> obj]

Entries ==
    { Entry("", "accounts", ".csv", TRUE, "csv", "records", AccountsCsv, <<>>),
      Entry("sub", "accounts", ".json", TRUE, "json", "records", AccountsJson, <<>>),
      Entry("", "train_fraud_labels", ".json", TRUE, "json", "records", LabelsJson, <<>>),
      Entry("", "train-fraud_labels", ".csv", TRUE, "csv", "records", LookalikeCsv, <<>>),
      Entry("", "mcc_codes", ".json", TRUE, "json", "object", NoFrame, MccObject),
      Entry("", "notes", ".txt", TRUE, "garbage", "records", NoFrame, <<>>),
      Entry("", "broken", ".json", TRUE, "garbage", "records", NoFrame, <<>>),
      Entry("", "sub", "", FALSE, "garbage", "records", NoFrame, <<>>) }

\* what rglob can yield: at most MaxFiles entries, no path twice
Listings ==
    UNION { { q \in [1..n -> Entries] :
                \A i, j \in 1..n : i # j => q[i] # q[j] } : n \in 0..MaxFiles }

(***************************************************************************)
(* A second set of entries, for the reader and the synthesizer: files      *)
(* whose suffix, content and name do not go together, and a columnar file  *)
(* with one column of every kind of dtype.  "Datetime(us)" is the dtype    *)
(* object of a timestamp column as polars releases that hash a Datetime by *)
(* its time unit and zone hand it out: it is equal to pl.Datetime but does *)
(* not hash like it; "Datetime" is one that hashes like the class.         *)
(***************************************************************************)
EventsParquet ==
    DataFrame(<<Col("n", "Int32"), Col("x", "Float32"), Col("s", "Utf8"),
                Col("at", "Datetime(us)"), Col("flag", "Boolean")>>,
              <<<<1, 2, "a", 2021, "True">>, <<3, 4, "b", 2022, "False">>>>)
OneAccount == <<<<"id", "7">>, <<"owner", "ann">>>>

ReaderEntries ==
    { Entry("", "mcc_codes", ".json", TRUE, "json", "object", NoFrame, MccObject),
      Entry("", "mcc_codes", ".csv", TRUE, "json", "object", NoFrame, MccObject),
      Entry("", "mcc_codes", ".txt", TRUE, "json", "object", NoFrame, MccObject),
      Entry("sub", "mcc_codes", ".json", TRUE, "json", "records", LabelsJson, <<>>),
      Entry("", "accounts", ".json", TRUE, "json", "object", NoFrame, OneAccount),
      Entry("", "accounts", ".parquet", TRUE, "parquet", "records", EventsParquet, <<>>),
      Entry("", "train_fraud_labels", ".parquet", TRUE, "garbage", "records", NoFrame, <<>>) }

ReaderListings ==
    UNION { { q \in [1..n -> ReaderEntries] :
                \A i, j \in 1..n : i # j => q[i] # q[j] } : n \in 0..MaxReaderFiles }

(***************************************************************************)
(* The store.  A table is absent, or exists with a column list and a       *)
(* number of rows.                                                         *)
(***************************************************************************)
Absent == [exists |-> FALSE, cols |-> <<>>, nrows |-> 0]

Table(cols, n) == [exists |-> TRUE, cols |-> cols, nrows |-> n]

\* a table some earlier client left behind
OldTable == Table(<<[name |-> "legacy", type |-> "String"]>>, 1)

Stores == [TableNames -> {Absent, OldTable}]

RECURSIVE Like(_, _)
\* SQL LIKE on character sequences: % is any run of characters, _ any one
Like(pat, s) ==
    IF pat = <<>> THEN s = <<>>
    ELSE IF Head(pat) = "%"
         THEN Like(Tail(pat), s) \/ (s # <<>> /\ Like(pat, Tail(s)))
         ELSE /\ s # <<>>
              /\ Head(pat) = "_" \/ Head(pat) = Head(s)
              /\ Like(Tail(pat), Tail(s))

\* the result of SHOW TABLES LIKE '<table_name>'
ShowTablesLike(st, table_name) ==
    { t \in TableNames : st[t].exists /\ Like(Chars(table_name), Chars(t)) }

\* BaseImporter.check_table_exists
check_table_exists_never(st, table_name) == FALSE

check_table_exists(st, table_name) ==
    Cardinality(ShowTablesLike(st, table_name)) > 0

(***************************************************************************)
(* Schema inference and DDL synthesis.                                     *)
(***************************************************************************)
\* the dict type_mapping of get_columns_from_df
type_mapping ==
    [t \in {"Int32", "Float32", "Utf8", "Datetime"} |->
        CASE t = "Int32" -> "Int32"
          [] t = "Float32" -> "Float32"
          [] t = "Utf8" -> "String"
          [] t = "Datetime" -> "DateTime"]

\* ClickHouseImporter.get_columns_from_df, before the join
get_columns_from_df_mapped(df) ==
    LET known == SelectSeq(df.columns, LAMBDA c : c.dtype \in DOMAIN type_mapping)
    IN  [i \in 1..Len(known) |->
            [name |-> known[i].name, type |-> type_mapping[known[i].dtype]]]

get_columns_from_df(df) ==
    [i \in 1..Len(df.columns) |->
        LET column == df.columns[i].name
            col_type == df.columns[i].dtype
        IN  IF col_type \in DOMAIN type_mapping
            THEN [name |-> column, type |-> type_mapping[col_type]]
            ELSE [name |-> column, type |-> "String"]]

\* ClickHouseImporter.generate_clickhouse_ddl
generate_clickhouse_ddl(df, table_name) ==
    [table |-> table_name, columns |-> get_columns_from_df(df), engine |-> "Memory"]

(***************************************************************************)
(* The reader.                                                             *)
(***************************************************************************)
supported_formats == {"csv", "json", "parquet"}

Ok(df) == [ok |-> TRUE, df |-> df, err |-> NoError]
Err(e) == [ok |-> FALSE, df |-> NoFrame, err |-> e]

\* Path.suffix.lstrip(".")
get_file_type(path) ==
    CASE path.suffix = ".csv" -> "csv"
      [] path.suffix = ".json" -> "json"
      [] path.suffix = ".parquet" -> "parquet"
      [] path.suffix = ".txt" -> "txt"
      [] OTHER -> ""

\* pl.read_csv, pl.read_json, pl.read_parquet: the file must hold that format
Loader(dataset_type, path) ==
    IF path.format # dataset_type THEN Err("RuntimeError")
    ELSE IF path.shape = "records" THEN Ok(path.df)
    ELSE Ok(DataFrame([i \in 1..Len(path.obj) |-> Col(path.obj[i][1], "Utf8")],
                      <<[i \in 1..Len(path.obj) |-> path.obj[i][2]]>>))

\* json.load, then the frame of the keys and the values
Interpolate(path) ==
    IF path.format # "json" \/ path.shape # "object" THEN Err("RuntimeError")
    ELSE Ok(DataFrame(<<Col("code", "Utf8"), Col("name", "Utf8")>>,
                      [i \in 1..Len(path.obj) |-> <<path.obj[i][1], path.obj[i][2]>>]))

\* the result r of get_dataframe, and the branch that produced it
Via(branch, r) == [ok |-> r.ok, df |-> r.df, err |-> r.err, via |-> branch]

\* ClickHouseImporter.get_dataframe
get_dataframe_generic(path, dataset_type, interpolation) ==
    IF dataset_type \notin supported_formats THEN Via("none", Err("ValueError"))
    ELSE Via("loader", Loader(dataset_type, path))

get_dataframe(path, dataset_type, interpolation) ==
    IF dataset_type \notin supported_formats THEN Via("none", Err("ValueError"))
    ELSE IF interpolation THEN Via("keyvalue", Interpolate(path))
    ELSE Via("loader", Loader(dataset_type, path))

(***************************************************************************)
(* The dict df_datasets, as the sequence of its items.                     *)
(***************************************************************************)
Keys(d) == { d[i].name : i \in 1..Len(d) }

\* d[key] = value: a new key goes last, an old key keeps its place
DictSet_append(d, key, value) == Append(d, [name |-> key, df |-> value])

DictSet(d, key, value) ==
    IF key \in Keys(d)
    THEN [i \in 1..Len(d) |-> IF d[i].name = key THEN [name |-> key, df |-> value] ELSE d[i]]
    ELSE Append(d, [name |-> key, df |-> value])

(***************************************************************************)
(* The store commands.  A command that fails raises and changes nothing.   *)
(***************************************************************************)
\* DROP TABLE IF EXISTS <table>
ExecDrop(st, table) == [st EXCEPT ![table] = Absent]

\* CREATE TABLE <table> (...) ENGINE = Memory is refused for an existing table
CreateRefused(st, ddl) == st[ddl.table].exists

ExecCreate(st, ddl) == [st EXCEPT ![ddl.table] = Table(ddl.columns, 0)]

\* INSERT INTO <table> VALUES is refused for a missing table and for rows
\* that do not have one value per column of the table
InsertRefused(st, table, data) ==
    \/ ~st[table].exists
    \/ \E i \in 1..Len(data) : Len(data[i]) # Len(st[table].cols)

ExecInsert(st, table, data) ==
    [st EXCEPT ![table].nrows = st[table].nrows + Len(data)]

\* str(val): a float prints with its fraction, a string is itself
Str(val, dtype) ==
    IF dtype \in {"Float32", "Float64"} THEN ToString(val) \o ".0"
    ELSE IF dtype \in {"Int32", "Int64", "Datetime", "Datetime(us)"} THEN ToString(val)
    ELSE val

\* BaseImporter.import_dataset: the list data
InsertData_first(df) ==
    [i \in 1..(IF Len(df.rows) > 0 THEN 1 ELSE 0) |->
        [j \in 1..Len(df.rows[i]) |-> Str(df.rows[i][j], df.columns[j].dtype)]]

InsertData(df) ==
    [i \in 1..Len(df.rows) |->
        [j \in 1..Len(df.rows[i]) |-> Str(df.rows[i][j], df.columns[j].dtype)]]

LogEntry(cmd, table, ok, found, existed, cols, data) ==
    [cmd |-> cmd, table |-> table, ok |-> ok, found |-> found,
     existed |-> existed, cols |-> cols, data |-> data]

(***************************************************************************)
(* The run.                                                                *)
(***************************************************************************)
\* get_datasets: data_path
data_path(p) == IF p = NoPath THEN DefaultPath ELSE p

\* the state after construction, with a directory listing out of L
InitWith(L) ==
    /\ dataset_path \in {NoPath, GivenPath}
    /\ full_refresh \in BOOLEAN
    /\ existing \in {{}, {DefaultPath}, {GivenPath}}
    /\ files \in L
    /\ data_path(dataset_path) \notin existing => files = <<>>
    /\ store \in Stores
    /\ pc = "start"
    /\ error = NoError
    /\ idx = 1
    /\ df_datasets = <<>>
    /\ k = 1
    /\ step = "none"
    /\ log = <<>>
    /\ reads = <<>>
    /\ store0 = store
    /\ store_init = store
    /\ run = 1
    /\ ends = <<>>

Init == InitWith(Listings)

InitReader == InitWith(ReaderListings)

\* get_datasets, line 158: data_path.exists()
path_exists_always(p, ex) == TRUE

path_exists(p, ex) == p \in ex

\* get_datasets, lines 173-175: an entry that cannot be read is skipped
NextEntry_break(i, fs, ok) == IF ok THEN i + 1 ELSE Len(fs) + 1

NextEntry(i, fs, ok) == i + 1

\* get_datasets, lines 169-175: line 170 is reached only if get_dataframe returns
Register_always(d, table_name, res) == DictSet(d, table_name, res.df)

Register(d, table_name, res) ==
    IF res.ok THEN DictSet(d, table_name, res.df) ELSE d

\* main, lines 182 and 184: the first command of the loop body
FirstStep_probe(fr) == "probe"

FirstStep(fr) == IF fr THEN "drop" ELSE "probe"

\* main, line 188: is the dataset loaded
Loads(table_name) == table_name \notin filter_tables

\* the run raises e and the process ends
Raise_retry(e) ==
    /\ pc' = "main"
    /\ error' = NoError
    /\ step' = step
    /\ UNCHANGED <<k, ends>>

Raise_swallow(e) ==
    /\ pc' = "main"
    /\ error' = NoError
    /\ step' = "insert"
    /\ UNCHANGED <<k, ends>>

Raise(e) ==
    /\ pc' = "failed"
    /\ error' = e
    /\ step' = "none"
    /\ UNCHANGED <<k, ends>>

\* the loop body of main is over for item k: the next item, or the end
NextItem_return(st) ==
    /\ error' = NoError
    /\ pc' = "done"
    /\ k' = k
    /\ step' = "none"
    /\ ends' = Append(ends, st)

NextItem(st) ==
    /\ error' = NoError
    /\ IF k < Len(df_datasets)
       THEN /\ pc' = "main"
            /\ k' = k + 1
            /\ step' = FirstStep(full_refresh)
            /\ ends' = ends
       ELSE /\ pc' = "done"
            /\ k' = k
            /\ step' = "none"
            /\ ends' = Append(ends, st)

\* the loop body of main goes on with command s for item k
Goto(s) ==
    /\ pc' = "main"
    /\ error' = NoError
    /\ step' = s
    /\ UNCHANGED <<k, ends>>

\* get_datasets, lines 152-161
ResolveRoot ==
    /\ pc = "start"
    /\ IF ~path_exists(data_path(dataset_path), existing)
       THEN /\ pc' = "failed"
            /\ error' = "FileNotFoundError"
       ELSE /\ pc' = "scan"
            /\ error' = NoError
    /\ UNCHANGED <<store_init, dataset_path, full_refresh, existing, files, store, idx,
                   df_datasets, k, step, log, reads, store0, run, ends>>

\* get_datasets, lines 162-175: one turn of the rglob loop
ScanEntry ==
    /\ pc = "scan"
    /\ idx <= Len(files)
    /\ LET path == files[idx]
           table_name == path.stem
           file_type == get_file_type(path)
           interpolation == table_name = InterpolatedName
           res == get_dataframe(path, file_type, interpolation)
       IN  IF ~path.is_file
           THEN /\ idx' = idx + 1
                /\ UNCHANGED <<df_datasets, reads>>
           ELSE /\ df_datasets' = Register(df_datasets, table_name, res)
                /\ reads' = Append(reads, [path |-> path, ok |-> res.ok, err |-> res.err,
                                           via |-> res.via, df |-> res.df,
                                           issued |-> Len(log)])
                /\ idx' = NextEntry(idx, files, res.ok)
    /\ UNCHANGED <<store_init, dataset_path, full_refresh, existing, files, store, pc, error,
                   k, step, log, store0, run, ends>>

\* get_datasets, line 177, and main, line 181: the for loop starts
ScanDone ==
    /\ pc = "scan"
    /\ idx > Len(files)
    /\ IF df_datasets = <<>>
       THEN /\ pc' = "done"
            /\ step' = "none"
            /\ ends' = Append(ends, store)
       ELSE /\ pc' = "main"
            /\ step' = FirstStep(full_refresh)
            /\ ends' = ends
    /\ k' = 1
    /\ UNCHANGED <<store_init, dataset_path, full_refresh, existing, files, store, error, idx,
                   df_datasets, log, reads, store0, run>>

\* main, lines 182-183: drop_table
DropTable ==
    /\ pc = "main" /\ step = "drop"
    /\ LET table_name == df_datasets[k].name
       IN  \E ok \in BOOLEAN :
             /\ log' = Append(log, LogEntry("DROP", table_name, ok, FALSE,
                                            store[table_name].exists, <<>>, <<>>))
             /\ IF ok
                THEN /\ store' = ExecDrop(store, table_name)
                     /\ Goto("probe")
                ELSE /\ store' = store
                     /\ Raise("StoreCommandFailure")
    /\ UNCHANGED <<store_init, dataset_path, full_refresh, existing, files, idx, df_datasets,
                   reads, store0, run>>

\* main, line 184: check_table_exists
ProbeTable ==
    /\ pc = "main" /\ step = "probe"
    /\ LET table_name == df_datasets[k].name
           found == check_table_exists(store, table_name)
       IN  \E ok \in BOOLEAN :
             /\ log' = Append(log, LogEntry("SHOW", table_name, ok, ok /\ found,
                                            store[table_name].exists, <<>>, <<>>))
             /\ IF ~ok THEN Raise("StoreCommandFailure")
                ELSE IF ~found THEN Goto("create")
                ELSE IF Loads(table_name) THEN Goto("insert")
                ELSE NextItem(store)
    /\ UNCHANGED <<store_init, dataset_path, full_refresh, existing, files, store, idx,
                   df_datasets, reads, store0, run>>

\* main, lines 185-187: create_table
CreateTable ==
    /\ pc = "main" /\ step = "create"
    /\ LET table_name == df_datasets[k].name
           ddl == generate_clickhouse_ddl(df_datasets[k].df, table_name)
       IN  \E ok \in BOOLEAN :
             LET done == ok /\ ~CreateRefused(store, ddl)
                 st == IF done THEN ExecCreate(store, ddl) ELSE store
             IN  /\ log' = Append(log, LogEntry("CREATE", table_name, done, FALSE,
                                                store[table_name].exists, ddl.columns, <<>>))
                 /\ store' = st
                 /\ IF ~done THEN Raise("StoreCommandFailure")
                    ELSE IF Loads(table_name) THEN Goto("insert")
                    ELSE NextItem(st)
    /\ UNCHANGED <<store_init, dataset_path, full_refresh, existing, files, idx, df_datasets,
                   reads, store0, run>>

\* main, lines 188-189: import_dataset
ImportDataset ==
    /\ pc = "main" /\ step = "insert"
    /\ LET table_name == df_datasets[k].name
           data == InsertData(df_datasets[k].df)
       IN  \E ok \in BOOLEAN :
             LET done == ok /\ ~InsertRefused(store, table_name, data)
                 st == IF done THEN ExecInsert(store, table_name, data) ELSE store
             IN  /\ log' = Append(log, LogEntry("INSERT", table_name, done, FALSE,
                                                store[table_name].exists, <<>>, data))
                 /\ store' = st
                 /\ IF ~done THEN Raise("StoreCommandFailure")
                    ELSE NextItem(st)
    /\ UNCHANGED <<store_init, dataset_path, full_refresh, existing, files, idx, df_datasets,
                   reads, store0, run>>

\* the script is started again with the same arguments on the same directory
RunAgain ==
    /\ pc = "done"
    /\ run < MaxRuns
    /\ run' = run + 1
    /\ pc' = "start"
    /\ error' = NoError
    /\ idx' = 1
    /\ df_datasets' = <<>>
    /\ k' = 1
    /\ step' = "none"
    /\ log' = <<>>
    /\ reads' = <<>>
    /\ store0' = store
    /\ UNCHANGED <<store_init, dataset_path, full_refresh, existing, files, store, ends>>

Next ==
    \/ ResolveRoot
    \/ ScanEntry
    \/ ScanDone
    \/ DropTable
    \/ ProbeTable
    \/ CreateTable
    \/ ImportDataset
    \/ RunAgain

Spec == Init /\ [][Next]_vars

SpecReader == InitReader /\ [][Next]_vars

(***************************************************************************)
(* What the claims speak about.                                            *)
(***************************************************************************)
Ended == pc \in {"done", "failed"}

\* the positions of the log that hold command cmd for table t
Issued(cmd, t) == { i \in DOMAIN log : log[i].cmd = cmd /\ log[i].table = t }

\* the frame a run obtains from entry f, if it obtains one
ReadOf(f) == get_dataframe(f, get_file_type(f), f.stem = InterpolatedName)

\* the entries of the listing that are read into a frame
GoodEntries == { i \in DOMAIN files : files[i].is_file /\ ReadOf(files[i]).ok }

BadEntries == { i \in DOMAIN files : files[i].is_file /\ ~ReadOf(files[i]).ok }

AllReadsOk == \A i \in DOMAIN reads : reads[i].ok

\* the column list the run synthesizes for item i of df_datasets
Synthesized(i) == generate_clickhouse_ddl(df_datasets[i].df, df_datasets[i].name).columns

(***************************************************************************)
(* C1: if a store command fails while a dataset is provisioned, only that  *)
(* dataset's remaining steps are skipped: when the run has ended, every    *)
(* dataset discovered after it has still been sent its own store commands. *)
(***************************************************************************)
C1_StoreFailureSkipsOnlyThatDataset ==
    (Ended /\ \E j \in DOMAIN log : ~log[j].ok)
        => \A i \in DOMAIN df_datasets :
                \E j \in DOMAIN log : log[j].table = df_datasets[i].name

(***************************************************************************)
(* C2: without full-refresh, a table that exists when its existence probe  *)
(* is made gets no CREATE command in the run, whatever schema was inferred *)
(* from the file, and keeps the column list it had.                        *)
(***************************************************************************)
C2_ExistingTableIsNotRecreated ==
    ~full_refresh =>
        \A i \in DOMAIN log :
            (log[i].cmd = "SHOW" /\ log[i].existed) =>
                /\ Issued("CREATE", log[i].table) = {}
                /\ store[log[i].table].exists
                /\ store[log[i].table].cols = store0[log[i].table].cols

C2_Witness ==
    /\ ~full_refresh
    /\ pc = "done"
    /\ \E i \in DOMAIN df_datasets :
        /\ Issued("SHOW", df_datasets[i].name) # {}
        /\ store0[df_datasets[i].name].exists
        /\ Synthesized(i) # store[df_datasets[i].name].cols
        /\ Issued("INSERT", df_datasets[i].name) # {}

(***************************************************************************)
(* C3: no INSERT is ever issued for train_fraud_labels, under either value *)
(* of the full-refresh flag and also when its file was read; the table is  *)
(* provisioned like any other: dropped first under full-refresh, probed,   *)
(* and sent a CREATE exactly when the probe reports it absent.             *)
(***************************************************************************)
C3_ExcludedTableIsProvisionedNotLoaded ==
    LET t == "train_fraud_labels"
    IN  /\ Issued("INSERT", t) = {}
        /\ store[t].nrows <= store0[t].nrows
        /\ \A i \in Issued("SHOW", t) :
            /\ full_refresh => i > 1 /\ log[i-1].cmd = "DROP" /\ log[i-1].table = t
            /\ (log[i].ok /\ ~log[i].found) =>
                    IF i = Len(log) THEN pc = "main" /\ step = "create"
                    ELSE log[i+1].cmd = "CREATE" /\ log[i+1].table = t
            /\ (log[i].ok /\ log[i].found) => Issued("CREATE", t) = {}
        /\ (pc = "done" /\ t \in Keys(df_datasets)) => Issued("SHOW", t) # {}

C3_Witness ==
    LET t == "train_fraud_labels"
    IN  /\ pc = "done"
        /\ full_refresh
        /\ store0[t].exists
        /\ \E i \in DOMAIN df_datasets :
              df_datasets[i].name = t /\ Len(df_datasets[i].df.rows) > 0
        /\ \E i \in Issued("DROP", t) : log[i].ok
        /\ \E i \in Issued("CREATE", t) : log[i].ok
        /\ store[t].exists /\ store[t].nrows = 0

(***************************************************************************)
(* C4: two failure-free full-refresh runs in sequence over the same        *)
(* unchanged directory leave every table with the same column list and the *)
(* same row count (the same store) after the second run as after the first.*)
(***************************************************************************)
C4_FullRefreshTwiceGivesSameStore ==
    full_refresh =>
        \A r \in 1..(Len(ends) - 1) :
            \A t \in TableNames :
                /\ ends[r+1][t].exists = ends[r][t].exists
                /\ ends[r+1][t].cols = ends[r][t].cols
                /\ ends[r+1][t].nrows = ends[r][t].nrows

(***************************************************************************)
(* C5: a file whose read fails is skipped and discovery goes on.  When     *)
(* discovery is over every file of the listing has been attempted, and     *)
(* every file that reads successfully, before or after the failing one, has*)
(* its table name in df_datasets, which holds for each name the frame of   *)
(* the last file of that stem that was read; when the run then ends        *)
(* normally each of these tables was probed, created if the probe reported *)
(* it absent, and, unless excluded, sent its rows.                         *)
(***************************************************************************)
C5_ReadFailureSkipsOnlyThatFile ==
    (pc \in {"main", "done"} \/ (pc = "failed" /\ error = "StoreCommandFailure"))
    /\ BadEntries # {}
    => /\ Len(reads) = Cardinality({ i \in DOMAIN files : files[i].is_file })
       /\ \A i \in GoodEntries : files[i].stem \in Keys(df_datasets)
       /\ \A j \in DOMAIN df_datasets :
            \E i \in GoodEntries :
                /\ files[i].stem = df_datasets[j].name
                /\ ReadOf(files[i]).df = df_datasets[j].df
                /\ \A h \in GoodEntries : files[h].stem = files[i].stem => h <= i
       /\ pc = "done" =>
            \A j \in DOMAIN df_datasets :
                LET t == df_datasets[j].name
                IN  /\ \E p \in Issued("SHOW", t) :
                        /\ log[p].ok
                        /\ ~log[p].found =>
                              /\ \E c \in Issued("CREATE", t) :
                                    log[c].ok /\ log[c].cols = Synthesized(j)
                              /\ store[t].exists
                    /\ t # "train_fraud_labels" =>
                        \E n \in Issued("INSERT", t) :
                            log[n].ok /\ log[n].data = InsertData(df_datasets[j].df)

C5_Witness ==
    /\ pc = "done"
    /\ Len(reads) = 2
    /\ ~reads[1].ok
    /\ reads[1].err = "RuntimeError"
    /\ reads[2].ok
    /\ ~store0[reads[2].path.stem].exists
    /\ store[reads[2].path.stem].exists
    /\ store[reads[2].path.stem].nrows = Len(ReadOf(reads[2].path).df.rows)
    /\ store[reads[2].path.stem].nrows > 0

(***************************************************************************)
(* C6: under full-refresh every processed dataset is sent a DROP TABLE IF  *)
(* EXISTS, whether or not its table exists, right before its existence     *)
(* probe, so the probe and the create decision see the store after the     *)
(* drop; without full-refresh no DROP is ever issued.                      *)
(***************************************************************************)
C6_DropPrecedesProbeOnlyOnFullRefresh ==
    /\ ~full_refresh => \A i \in DOMAIN log : log[i].cmd # "DROP"
    /\ full_refresh =>
        /\ \A i \in DOMAIN log :
              log[i].cmd \in {"SHOW", "CREATE", "INSERT"} =>
                  \E d \in Issued("DROP", log[i].table) : d < i /\ log[d].ok
        /\ \A i \in DOMAIN log :
              log[i].cmd = "SHOW" =>
                  /\ i > 1
                  /\ log[i-1].cmd = "DROP"
                  /\ log[i-1].table = log[i].table
                  /\ ~log[i].existed
        /\ \A j \in DOMAIN df_datasets :
              (pc = "done" \/ (pc \in {"main", "failed"} /\ j < k)) =>
                  Issued("DROP", df_datasets[j].name) # {}

C6_Witness ==
    /\ full_refresh
    /\ pc = "done"
    /\ \E i \in DOMAIN log : log[i].cmd = "DROP" /\ log[i].existed
    /\ \E i \in DOMAIN log :
          /\ log[i].cmd = "DROP" /\ ~log[i].existed
          /\ log[i+1].cmd = "SHOW" /\ ~log[i+1].found
          /\ log[i+2].cmd = "CREATE" /\ log[i+2].ok

(***************************************************************************)
(* C7: after a run in which no read and no store command fails every       *)
(* discovered dataset's table exists with the column list synthesized from *)
(* that dataset in this run.  (Stated for the tables the rest of the       *)
(* specification lets the run create: all of them under full-refresh, the  *)
(* ones absent at the start otherwise.)                                    *)
(***************************************************************************)
C7_TablesExistWithSynthesizedColumns ==
    (pc = "done" /\ AllReadsOk) =>
        \A i \in DOMAIN df_datasets :
            LET t == df_datasets[i].name
            IN  (full_refresh \/ ~store0[t].exists) =>
                    store[t].exists /\ store[t].cols = Synthesized(i)

(***************************************************************************)
(* C8: in a failure-free run each non-excluded dataset with N rows is sent *)
(* exactly one INSERT, which carries all N rows, and each excluded         *)
(* dataset's table exists at the end with no row inserted by the run.      *)
(***************************************************************************)
C8_OneInsertOfAllRowsAndEmptyShells ==
    (pc = "done" /\ AllReadsOk) =>
        \A i \in DOMAIN df_datasets :
            LET t == df_datasets[i].name
            IN  IF t # "train_fraud_labels"
                THEN /\ Cardinality(Issued("INSERT", t)) = 1
                     /\ \A n \in Issued("INSERT", t) :
                            log[n].ok /\ Len(log[n].data) = Len(df_datasets[i].df.rows)
                ELSE /\ Issued("INSERT", t) = {}
                     /\ store[t].exists

(***************************************************************************)
(* C9: if the dataset root does not exist the run ends with the            *)
(* directory-not-found error before any file is read and before any store  *)
(* command is issued, and the store is unchanged.                          *)
(***************************************************************************)
C9_MissingRootEndsRunBeforeAnyCommand ==
    (data_path(dataset_path) \notin existing /\ pc # "start") =>
        /\ pc = "failed"
        /\ error = "FileNotFoundError"
        /\ reads = <<>>
        /\ df_datasets = <<>>
        /\ log = <<>>
        /\ store = store0
        /\ ends = <<>>

C9_Witness ==
    /\ pc = "failed"
    /\ error = "FileNotFoundError"
    /\ dataset_path = GivenPath
    /\ existing = {DefaultPath}
    /\ \E t \in TableNames : store[t].exists

(***************************************************************************)
(* C10: provided the dataset root exists the run always ends normally,     *)
(* whatever reads and store commands fail: the missing-root error is the   *)
(* only error that ends a run abnormally.                                  *)
(***************************************************************************)
C10_OnlyMissingRootEndsRunAbnormally ==
    pc = "failed" =>
        error = "FileNotFoundError" /\ data_path(dataset_path) \notin existing

(***************************************************************************)
(* C11: the column type mapping is total and deterministic: a 32-bit       *)
(* integer column gets "Int32", a 32-bit float column "Float32", a text    *)
(* column "String", a timestamp column "DateTime" and a column of any      *)
(* other type "String", for every column of every frame that is read.      *)
(***************************************************************************)
ClaimedType(dtype) ==
    CASE dtype = "Int32" -> "Int32"
      [] dtype = "Float32" -> "Float32"
      [] dtype = "Utf8" -> "String"
      [] dtype \in {"Datetime", "Datetime(us)"} -> "DateTime"
      [] OTHER -> "String"

C11_ColumnTypesFollowTheTable ==
    \A i \in DOMAIN df_datasets :
        /\ Len(Synthesized(i)) = Len(df_datasets[i].df.columns)
        /\ \A j \in DOMAIN df_datasets[i].df.columns :
              Synthesized(i)[j].type = ClaimedType(df_datasets[i].df.columns[j].dtype)

(***************************************************************************)
(* C12: the CREATE TABLE statement of a dataset has exactly one column     *)
(* definition per column of the dataset, in the dataset's column order:    *)
(* the j-th definition names the j-th column.                              *)
(***************************************************************************)
OneDefinitionPerColumn(cols, df) ==
    /\ Len(cols) = Len(df.columns)
    /\ \A j \in DOMAIN cols : cols[j].name = df.columns[j].name

C12_DdlListsColumnsInOrder ==
    /\ \A i \in DOMAIN df_datasets : OneDefinitionPerColumn(Synthesized(i), df_datasets[i].df)
    /\ \A c \in DOMAIN log :
          log[c].cmd = "CREATE" =>
              \E i \in DOMAIN df_datasets :
                  /\ df_datasets[i].name = log[c].table
                  /\ OneDefinitionPerColumn(log[c].cols, df_datasets[i].df)

C12_Witness ==
    /\ pc = "done"
    /\ \E c \in DOMAIN log :
          /\ log[c].cmd = "CREATE" /\ log[c].ok
          /\ Len(log[c].cols) = 2
          /\ store[log[c].table].cols = log[c].cols
          /\ \E i \in DOMAIN df_datasets :
                /\ df_datasets[i].name = log[c].table
                /\ df_datasets[i].df.columns[1].dtype \notin DOMAIN type_mapping
                /\ df_datasets[i].df.columns[2].name = log[c].cols[2].name

(***************************************************************************)
(* C13: for the dataset named mcc_codes the key-value path is taken before *)
(* the per-format loaders: no loader is called for it, and a file holding  *)
(* a flat JSON object is read as the table whose column code holds the     *)
(* keys and whose column name holds the values, in key order; for any      *)
(* other name the key-value path is never taken.                           *)
(***************************************************************************)
IsFlatObject(path) == path.format = "json" /\ path.shape = "object"

KeyValueFrame(df, obj) ==
    /\ Len(df.columns) = 2
    /\ df.columns[1].name = "code" /\ df.columns[2].name = "name"
    /\ Len(df.rows) = Len(obj)
    /\ \A i \in DOMAIN obj : df.rows[i][1] = obj[i][1] /\ df.rows[i][2] = obj[i][2]

C13_KeyValuePathForMccCodesOnly ==
    \A r \in DOMAIN reads :
        IF reads[r].path.stem = "mcc_codes"
        THEN /\ reads[r].via # "loader"
             /\ IsFlatObject(reads[r].path) =>
                    /\ reads[r].ok
                    /\ reads[r].via = "keyvalue"
                    /\ KeyValueFrame(reads[r].df, reads[r].path.obj)
        ELSE reads[r].via # "keyvalue"

(***************************************************************************)
(* C13 as amended: the same, for a file of mcc_codes whose suffix is csv,  *)
(* json or parquet; a file of mcc_codes with any other suffix fails with   *)
(* the unsupported-type error before the key-value path is reached.        *)
(***************************************************************************)
C13_KeyValuePathForSupportedSuffix ==
    \A r \in DOMAIN reads :
        IF reads[r].path.stem = "mcc_codes"
        THEN /\ reads[r].via # "loader"
             /\ IF get_file_type(reads[r].path) \in supported_formats
                THEN /\ reads[r].via = "keyvalue"
                     /\ IsFlatObject(reads[r].path) =>
                            reads[r].ok /\ KeyValueFrame(reads[r].df, reads[r].path.obj)
                ELSE /\ ~reads[r].ok
                     /\ reads[r].err = "ValueError"
                     /\ reads[r].via = "none"
        ELSE reads[r].via # "keyvalue"

C13_Witness ==
    /\ pc = "done"
    /\ \E r \in DOMAIN reads :
          /\ reads[r].path.stem = "mcc_codes"
          /\ reads[r].path.suffix = ".csv"
          /\ reads[r].ok
          /\ reads[r].via = "keyvalue"
          /\ reads[r].df.rows = <<<<"5411", "Grocery">>, <<"5812", "Restaurant">>>>
    /\ store["mcc_codes"].nrows >= 2

(***************************************************************************)
(* C14: datasets are processed one at a time end to end: for A discovered  *)
(* before B, every store command of A has been issued by the time B's file *)
(* is read.                                                                *)
(***************************************************************************)
C14_EachDatasetEndToEnd ==
    \A a, b \in DOMAIN reads :
        (a < b /\ reads[a].ok /\ reads[b].ok
               /\ reads[a].path.stem # reads[b].path.stem) =>
            \A c \in DOMAIN log :
                log[c].table = reads[a].path.stem => c <= reads[b].issued

(***************************************************************************)
(* C14 as amended: the run has two phases.  Every file is read before the  *)
(* first store command is issued; then the datasets are provisioned and    *)
(* loaded one at a time in discovery order: for A discovered before B,     *)
(* every store command of A is issued before the first store command of B, *)
(* and a run that ends normally has sent every dataset its commands.       *)
(***************************************************************************)
\* the position of table t in df_datasets.items()
Pos(t) == CHOOSE i \in DOMAIN df_datasets : df_datasets[i].name = t

\* the reads of this run that gave a frame for table t
GoodReads(t) == { r \in DOMAIN reads : reads[r].ok /\ reads[r].path.stem = t }

FirstRead(t) == CHOOSE r \in GoodReads(t) : \A q \in GoodReads(t) : r <= q

LastRead(t) == CHOOSE r \in GoodReads(t) : \A q \in GoodReads(t) : q <= r

C14_ReadAllThenStoreOneByOne ==
    /\ \A r \in DOMAIN reads : reads[r].issued = 0
    /\ pc \in {"start", "scan"} => log = <<>>
    /\ \A c, d \in DOMAIN log :
          c < d => /\ log[c].table \in Keys(df_datasets)
                   /\ log[d].table \in Keys(df_datasets)
                   /\ Pos(log[c].table) <= Pos(log[d].table)
    /\ pc \in {"main", "done", "failed"} =>
          \A i, j \in DOMAIN df_datasets :
              i < j => FirstRead(df_datasets[i].name) < FirstRead(df_datasets[j].name)
    /\ pc = "done" =>
          \A i \in DOMAIN df_datasets :
              \E c \in DOMAIN log : log[c].table = df_datasets[i].name

C14_Witness ==
    /\ pc = "done"
    /\ Len(df_datasets) = 2
    /\ Len(reads) = 2
    /\ reads[2].issued = 0
    /\ Len(log) >= 5
    /\ log[1].table = reads[1].path.stem
    /\ log[Len(log)].table = reads[2].path.stem

(***************************************************************************)
(* C15: no store command is retried: in one run a table name gets at most  *)
(* one DROP, at most one CREATE, at most one INSERT and, unless an earlier *)
(* command of its dataset failed, exactly one existence probe, also when a *)
(* command fails.                                                          *)
(***************************************************************************)
C15_NoCommandIsRetried ==
    \A t \in TableNames :
        /\ \A cmd \in {"DROP", "SHOW", "CREATE", "INSERT"} :
              Cardinality(Issued(cmd, t)) <= 1
        /\ (\E c \in DOMAIN log : log[c].table = t) =>
              \/ Cardinality(Issued("SHOW", t)) = 1
              \/ \E d \in Issued("DROP", t) : ~log[d].ok
              \/ pc = "main" /\ step = "probe" /\ df_datasets[k].name = t

C15_Witness ==
    /\ pc = "failed"
    /\ full_refresh
    /\ Len(log) = 3
    /\ log[1].cmd = "DROP" /\ log[1].ok
    /\ log[2].cmd = "SHOW" /\ log[2].ok
    /\ log[3].cmd = "CREATE" /\ ~log[3].ok
    /\ Len(df_datasets) = 2

(***************************************************************************)
(* C16: an INSERT into a table is issued only after, in the same run and   *)
(* for the same dataset, the existence probe reported the table present or *)
(* a CREATE for it succeeded; never for a table whose CREATE failed or     *)
(* that the probe reported absent without a successful CREATE after it.    *)
(***************************************************************************)
C16_InsertOnlyAfterFoundOrCreated ==
    \A n \in DOMAIN log :
        log[n].cmd = "INSERT" =>
            LET t == log[n].table
            IN  /\ \/ \E p \in Issued("SHOW", t) : p < n /\ log[p].ok /\ log[p].found
                   \/ \E c \in Issued("CREATE", t) : c < n /\ log[c].ok
                /\ \A c \in Issued("CREATE", t) : log[c].ok
                /\ \A p \in Issued("SHOW", t) :
                      /\ p < n
                      /\ log[p].ok
                      /\ ~log[p].found => \E c \in Issued("CREATE", t) :
                                              p < c /\ c < n /\ log[c].ok
                /\ Issued("SHOW", t) # {}

C16_Witness ==
    /\ pc = "done"
    /\ Len(df_datasets) = 2
    /\ \E n \in DOMAIN log :
          /\ log[n].cmd = "INSERT" /\ log[n].ok
          /\ log[n-1].cmd = "CREATE" /\ log[n-1].ok
    /\ \E n \in DOMAIN log :
          /\ log[n].cmd = "INSERT" /\ log[n].ok
          /\ log[n-1].cmd = "SHOW" /\ log[n-1].found

C18_EachRunAddsAllRows ==
    (~full_refresh /\ pc = "done") =>
        \A i \in DOMAIN df_datasets :
            LET t == df_datasets[i].name
                N == Len(df_datasets[i].df.rows)
            IN  t # "train_fraud_labels" =>
                    /\ \E n \in Issued("INSERT", t) : log[n].ok /\ Len(log[n].data) = N
                    /\ store[t].nrows = store0[t].nrows + N
                    /\ ~store_init[t].exists => store[t].nrows = run * N
                    /\ Len(ends) = run

C18_Witness ==
    /\ ~full_refresh
    /\ pc = "done"
    /\ run = 2
    /\ \E i \in DOMAIN df_datasets :
          LET t == df_datasets[i].name
          IN  /\ ~store_init[t].exists
              /\ Len(df_datasets[i].df.rows) = 2
              /\ store[t].nrows = 4
              /\ ends[1][t].nrows = 2

(***************************************************************************)
(* C19: a table name for which no file was read successfully gets no store *)
(* command in that run, not even a DROP under full-refresh: its existence, *)
(* columns and rows are as they were when the run started.                 *)
(***************************************************************************)
C19_UnreadNamesAreUntouched ==
    \A t \in TableNames :
        GoodReads(t) = {} =>
            /\ \A c \in DOMAIN log : log[c].table # t
            /\ store[t] = store0[t]

C19_Witness ==
    /\ pc = "done"
    /\ full_refresh
    /\ Len(reads) = 2
    /\ ~reads[1].ok
    /\ reads[2].ok
    /\ reads[1].path.stem # reads[2].path.stem
    /\ store0[reads[1].path.stem].exists
    /\ store[reads[1].path.stem] = store0[reads[1].path.stem]
    /\ store0[reads[2].path.stem].exists
    /\ store[reads[2].path.stem] # store0[reads[2].path.stem]

=============================================================================
